---- MODULE Spec2Model ----
(***************************************************************************)
(* Model of src/config_manager.py (ydl_api_ng): the startup resolution of  *)
(* the parameter file (dispatch, reference expansion, DEFAULT merge, typed *)
(* population) and the request-time accessors of ConfigManager.            *)
(*                                                                         *)
(* A section name is kept as its colon-separated segments: 'preset:A' is   *)
(* <<"preset", "A">> and 'app' is <<"app">>.  A section body (a configparser *)
(* section, a SectionConfig.__dict__) is an ordered sequence of            *)
(* <<key, value>> pairs with distinct keys, as a Python dict is.           *)
(***************************************************************************)
EXTENDS Integers, Sequences, FiniteSets, TLC

VARIABLES config, pc, idx, work, iter, merged, depth, phase, parsers,
          keys_metadata, objects, heap, error, ret, lastOp, copies

vars == <<config, pc, idx, work, iter, merged, depth, phase, parsers,
          keys_metadata, objects, heap, error, ret, lastOp, copies>>

\* Number of nested __expand_section frames the interpreter allows before
\* it raises RecursionError (scaled down from the interpreter's limit).
RecursionLimit == 8

\* Largest number of SectionConfig objects the request phase may allocate.
MaxAlloc == 2

----------------------------------------------------------------------------
(* Ordered key/value bodies: configparser sections and object __dict__s.   *)

Range(s) == {s[i] : i \in 1..Len(s)}

KeysOf(items) == {items[i][1] : i \in 1..Len(items)}

KeyList(items) == [i \in 1..Len(items) |-> items[i][1]]

has_option(items, key) == \E i \in 1..Len(items) : items[i][1] = key

ValueOf(items, key) == items[CHOOSE i \in 1..Len(items) : items[i][1] = key][2]

remove_option(items, key) == SelectSeq(items, LAMBDA it : it[1] # key)

\* dict assignment: an existing key keeps its position, a new key is appended
SetItem(items, key, value) ==
    IF has_option(items, key)
    THEN [i \in 1..Len(items) |->
             IF items[i][1] = key THEN <<key, value>> ELSE items[i]]
    ELSE Append(items, <<key, value>>)

----------------------------------------------------------------------------
(* The raw configuration (self.__config).                                  *)

has_section(cfg, name) == \E i \in 1..Len(cfg) : cfg[i].name = name

SectionItems(cfg, name) ==
    cfg[CHOOSE i \in 1..Len(cfg) : cfg[i].name = name].items

\* a list of reference keys that misses one
expendable_fields_short ==
    {"_preset", "_location", "_auth", "_site", "_user"}

expendable_fields ==
    {"_preset", "_template", "_location", "_auth", "_site", "_user"}

\* key.lstrip("_") on the reference keys
Lstrip(key) ==
    CASE key = "_preset"   -> "preset"
      [] key = "_template" -> "template"
      [] key = "_location" -> "location"
      [] key = "_auth"     -> "auth"
      [] key = "_site"     -> "site"
      [] key = "_user"     -> "user"
      [] OTHER             -> key

\* f'{key.lstrip("_")}:{value}'
TargetName(key, value) == <<Lstrip(key), value>>

\* a lookup of the default section under the wrong name
DefaultName_lower(name) == <<name[1], "default">>

\* f'{section_name.split(":")[0]}:DEFAULT'
DefaultName(name) == <<name[1], "DEFAULT">>

ExpandedNamespaces == {"preset", "user", "site", "auth"}

\* a dispatch that leaves the DEFAULT sections out
IsExpanded_skip_default(name) ==
    Len(name) >= 2 /\ name[1] \in ExpandedNamespaces /\ name[2] # "DEFAULT"

\* section.startswith('preset:') and its three siblings
IsExpanded(name) == Len(name) >= 2 /\ name[1] \in ExpandedNamespaces

\* a merge that lets the merged-in section win
RECURSIVE merge_configs_overwrite(_, _)
merge_configs_overwrite(src, dest) ==
    IF src = <<>> THEN dest
    ELSE merge_configs_overwrite(Tail(src), SetItem(dest, Head(src)[1], Head(src)[2]))

\* a merge that does not carry the reference keys of the merged section over
RECURSIVE merge_configs_plain(_, _)
merge_configs_plain(src, dest) ==
    IF src = <<>> THEN dest
    ELSE merge_configs_plain(Tail(src),
                             IF \/ has_option(dest, Head(src)[1])
                                \/ Head(src)[1] \in expendable_fields
                             THEN dest
                             ELSE Append(dest, Head(src)))

RECURSIVE merge_configs(_, _)
merge_configs(src, dest) ==
    IF src = <<>> THEN dest
    ELSE merge_configs(Tail(src),
                       IF has_option(dest, Head(src)[1])
                       THEN dest
                       ELSE Append(dest, Head(src)))

----------------------------------------------------------------------------
(* Typed values: t is the Python type, s a str, n an int, l a list of str. *)

StrV(x)  == [t |-> "str",  s |-> x,  n |-> 0, l |-> <<>>]
IntV(x)  == [t |-> "int",  s |-> "", n |-> x, l |-> <<>>]
BoolV(b) == [t |-> "bool", s |-> IF b THEN "True" ELSE "False", n |-> 0, l |-> <<>>]
ListV(x) == [t |-> "list", s |-> "", n |-> 0, l |-> x]
NoneV    == [t |-> "None", s |-> "", n |-> 0, l |-> <<>>]
\* float(value) and json.loads(value), kept as the tagged source text
FloatV(x)  == [t |-> "float", s |-> x, n |-> 0, l |-> <<>>]
ObjectV(x) == [t |-> "dict",  s |-> x, n |-> 0, l |-> <<>>]

\* bool(value) as the if-statement of is_user_permitted_by_token takes it
Truthy(v) ==
    CASE v.t = "bool" -> v.s = "True"
      [] v.t = "str"  -> v.s # ""
      [] v.t = "int"  -> v.n # 0
      [] v.t = "list" -> v.l # <<>>
      [] OTHER        -> FALSE

\* int(value) on the numerals of the parameter files
ParseInt(text) ==
    CASE text = "7"  -> 7
      [] text = "20" -> 20
      [] text = "80" -> 80
      [] OTHER       -> 0

\* value.split(',') on the texts of the parameter files
SplitComma(text) ==
    CASE text = "h1,h2" -> <<"h1", "h2">>
      [] text = "t1,t2" -> <<"t1", "t2">>
      [] OTHER          -> <<text>>

\* str.upper() on the section names of the parameter files
Upper(name) ==
    CASE name = "app"   -> "APP"
      [] name = "bob"   -> "BOB"
      [] name = "eve"   -> "EVE"
      [] name = "yt"    -> "YT"
      [] name = "a"     -> "A"
      [] OTHER          -> name

\* SectionConfig.__defaults
SectionDefaults ==
    << <<"_api_route_download", StrV("/download")>>,
       <<"_api_route_extract_info", StrV("/extract_info")>>,
       <<"_api_route_info", StrV("/info")>>,
       <<"_api_route_active_downloads", StrV("/active_downloads")>>,
       <<"_enable_users_management", BoolV(FALSE)>>,
       <<"_log_level", IntV(20)>>,
       <<"_log_backups", IntV(7)>>,
       <<"_listen_port", IntV(80)>>,
       <<"_listen_ip", StrV("0.0.0.0")>> >>

\* SectionConfig.get
SectionGet(obj, key) ==
    IF has_option(obj, key) THEN ValueOf(obj, key)
    ELSE IF has_option(SectionDefaults, key) THEN ValueOf(SectionDefaults, key)
    ELSE NoneV

\* SectionConfig.delete
SectionDelete(obj, key) == remove_option(obj, key)

\* ConfigManager.__get_parsed_parameter_value
ParsedValue(meta, key, value) ==
    CASE key \in meta._int    -> IntV(ParseInt(value))
      [] key \in meta._bool   -> BoolV(value = "true")
      [] key \in meta._array  -> IF value # "" THEN ListV(SplitComma(value)) ELSE NoneV
      [] key \in meta._float  -> FloatV(value)
      [] key \in meta._object -> ObjectV(value)
      [] OTHER                -> StrV(value)

----------------------------------------------------------------------------
(* Typed namespace containers (GlobalConfig): ordered <<NAME, id>> pairs;  *)
(* the SectionConfig objects live in heap, a sequence indexed by id.       *)

Namespaces == {"app", "preset", "user", "site", "auth"}

EmptyMeta == [_int |-> {}, _float |-> {}, _bool |-> {}, _array |-> {},
              _object |-> {}, _hidden |-> {}]

\* parse every pair of one expanded section into a SectionConfig body
RECURSIVE AddItems(_, _, _)
AddItems(meta, obj, items) ==
    IF items = <<>> THEN obj
    ELSE AddItems(meta,
                  SetItem(obj, Head(items)[1],
                          ParsedValue(meta, Head(items)[1], Head(items)[2])),
                  Tail(items))

\* ConfigManager.__populate_config_object: st is [c |-> container, h |-> heap]
RECURSIVE Populate(_, _, _)
Populate(meta, sections, st) ==
    IF sections = <<>> THEN st
    ELSE LET sec   == Head(sections)
             group == Upper(sec.name[Len(sec.name)])
             obj   == AddItems(meta, << <<"_name", StrV(group)>> >>, sec.items)
             id    == Len(st.h) + 1
         IN  Populate(meta, Tail(sections),
                      [c |-> SetItem(st.c, group, id), h |-> Append(st.h, obj)])

\* GlobalConfig.get
ContainerGet(container, key) ==
    IF has_option(container, Upper(key)) THEN ValueOf(container, Upper(key)) ELSE 0

\* GlobalConfig.search_section_by_value; 0 stands for None
RECURSIVE search_section_by_value(_, _, _, _)
search_section_by_value(container, h, key, value) ==
    IF container = <<>> THEN 0
    ELSE LET id           == Head(container)[2]
             return_value == SectionGet(h[id], key)
         IN  IF return_value.t = "list"
             THEN IF value.t = "str" /\ value.s \in Range(return_value.l)
                  THEN id
                  ELSE search_section_by_value(Tail(container), h, key, value)
             ELSE IF return_value = value
                  THEN id
                  ELSE search_section_by_value(Tail(container), h, key, value)

----------------------------------------------------------------------------
(* Startup: ConfigManager.__init__                                         *)

CurName == config[idx].name

Fail(kind) ==
    /\ pc' = "failed"
    /\ error' = kind

\* one iteration of the loop of __dispatch_configs; for an expanded
\* namespace it enters __expand_config and the first __expand_section
Dispatch ==
    /\ pc = "dispatch"
    /\ idx <= Len(config)
    /\ IF IsExpanded(CurName)
       THEN /\ work' = config[idx].items
            /\ phase' = 1
            /\ depth' = 1
            /\ iter' = KeyList(config[idx].items)
            /\ merged' = FALSE
            /\ pc' = "loop"
            /\ UNCHANGED <<idx, parsers>>
       ELSE /\ parsers' = IF CurName = <<"app">>
                          THEN [parsers EXCEPT !.app = Append(@, config[idx])]
                          ELSE parsers
            /\ idx' = idx + 1
            /\ UNCHANGED <<pc, work, phase, depth, iter, merged>>
    /\ UNCHANGED <<config, keys_metadata, objects, heap, error, ret, lastOp, copies>>

\* one iteration of the for loop of __expand_section; the loop runs over the
\* option list taken when the loop started and reads each value when reached
ExpandLoop ==
    /\ pc = "loop"
    /\ iter # <<>>
    /\ LET key == Head(iter) IN
       IF ~has_option(work, key)
       THEN Fail("KeyError") /\ UNCHANGED <<work, iter, merged>>
       ELSE IF key \in expendable_fields
       THEN LET target == TargetName(key, ValueOf(work, key)) IN
            IF has_section(config, target)
            THEN /\ work' = merge_configs(SectionItems(config, target),
                                          remove_option(work, key))
                 /\ merged' = TRUE
                 /\ iter' = Tail(iter)
                 /\ UNCHANGED <<pc, error>>
            ELSE /\ Fail("KeyError")
                 /\ work' = remove_option(work, key)
                 /\ merged' = TRUE
                 /\ UNCHANGED iter
       ELSE /\ iter' = Tail(iter)
            /\ UNCHANGED <<work, merged, pc, error>>
    /\ UNCHANGED <<config, idx, depth, phase, parsers, keys_metadata, objects,
                   heap, ret, lastOp, copies>>

\* if merged: self.__expand_section(section, config_set)
ExpandRecurse ==
    /\ pc = "loop"
    /\ iter = <<>>
    /\ merged
    /\ IF depth + 1 > RecursionLimit
       THEN Fail("RecursionError") /\ UNCHANGED <<depth, iter, merged>>
       ELSE /\ depth' = depth + 1
            /\ iter' = KeyList(work)
            /\ merged' = FALSE
            /\ UNCHANGED <<pc, error>>
    /\ UNCHANGED <<config, idx, work, phase, parsers, keys_metadata, objects,
                   heap, ret, lastOp, copies>>

\* a pass that merged nothing returns through every frame of the recursion
ExpandReturn ==
    /\ pc = "loop"
    /\ iter = <<>>
    /\ ~merged
    /\ depth' = 0
    /\ pc' = IF phase = 1 THEN "default" ELSE "store"
    /\ UNCHANGED <<config, idx, work, iter, merged, phase, parsers,
                   keys_metadata, objects, heap, error, ret, lastOp, copies>>

\* the DEFAULT merge of __expand_config and its second __expand_section
MergeDefault ==
    /\ pc = "default"
    /\ IF has_section(config, DefaultName(CurName))
       THEN /\ work' = merge_configs(SectionItems(config, DefaultName(CurName)), work)
            /\ phase' = 2
            /\ depth' = 1
            /\ iter' = KeyList(work')
            /\ merged' = FALSE
            /\ pc' = "loop"
       ELSE /\ pc' = "store"
            /\ UNCHANGED <<work, phase, depth, iter, merged>>
    /\ UNCHANGED <<config, idx, parsers, keys_metadata, objects, heap, error,
                   ret, lastOp, copies>>

\* the assignment self.__<ns>_config[section] = <expanded section>
StoreExpanded ==
    /\ pc = "store"
    /\ parsers' = [parsers EXCEPT ![CurName[1]] =
                      Append(@, [name |-> CurName, items |-> work])]
    /\ idx' = idx + 1
    /\ work' = <<>>
    /\ phase' = 0
    /\ pc' = "dispatch"
    /\ UNCHANGED <<config, iter, merged, depth, keys_metadata, objects, heap,
                   error, ret, lastOp, copies>>

\* the contents params/params_metadata.ini may have
MetaFiles ==
    {[_int |-> {"_log_level"}, _float |-> {}, _bool |-> {"_enable_users_management"},
      _array |-> {"_hosts"}, _object |-> {}, _hidden |-> hidden] :
        hidden \in {{"_token"}, {"_token", "x"}}}

LoadMetadata ==
    /\ pc = "dispatch"
    /\ idx > Len(config)
    /\ \E meta \in MetaFiles : keys_metadata' = meta
    /\ pc' = "objects"
    /\ UNCHANGED <<config, idx, work, iter, merged, depth, phase, parsers,
                   objects, heap, error, ret, lastOp, copies>>

PopulateOrder == <<"app", "preset", "user", "site", "auth">>

RECURSIVE PopulateAll(_, _, _, _)
PopulateAll(meta, order, objs, h) ==
    IF order = <<>> THEN [o |-> objs, h |-> h]
    ELSE LET st == Populate(meta, parsers[Head(order)], [c |-> <<>>, h |-> h])
         IN  PopulateAll(meta, Tail(order),
                         [objs EXCEPT ![Head(order)] = st.c], st.h)

SetConfigObjects ==
    /\ pc = "objects"
    /\ LET st == PopulateAll(keys_metadata, PopulateOrder, objects, heap)
       IN  objects' = st.o /\ heap' = st.h
    /\ pc' = "serving"
    /\ UNCHANGED <<config, idx, work, iter, merged, depth, phase, parsers,
                   keys_metadata, error, ret, lastOp, copies>>

----------------------------------------------------------------------------
(* Request time: the public accessors of ConfigManager.  A return value is *)
(* [kind, id, c]: "None", "False", "section" (the object heap[id]),        *)
(* "fresh" (a new object nothing else refers to, c = <<body>>) or          *)
(* "container" (a new GlobalConfig, c = its <<NAME, body>> pairs).         *)

RetNone       == [kind |-> "None", id |-> 0, c |-> <<>>]
RetFalse      == [kind |-> "False", id |-> 0, c |-> <<>>]
RetSection(i) == IF i = 0 THEN RetNone ELSE [kind |-> "section", id |-> i, c |-> <<>>]
RetFresh(b)   == [kind |-> "fresh", id |-> 0, c |-> <<b>>]
RetContainer(c) == [kind |-> "container", id |-> 0, c |-> c]
RetError      == [kind |-> "AttributeError", id |-> 0, c |-> <<>>]

Op(op, tok, u, p, key) == [op |-> op, tok |-> tok, u |-> u, p |-> p, key |-> key]

\* objects the startup allocated: one per section of every namespace parser
NCanon == Len(parsers.app) + Len(parsers.preset) + Len(parsers.user)
          + Len(parsers.site) + Len(parsers.auth)

Allocated == Len(heap) - NCanon

\* ConfigManager.get_app_params
get_app_params == ContainerGet(objects.app, "APP")

\* ConfigManager.get_user_param_by_token
get_user_param_by_token(token) ==
    search_section_by_value(objects.user, heap, "_token", token)

\* ConfigManager.is_user_permitted_by_token
is_user_permitted_by_token(user_token) ==
    LET manage_user == SectionGet(heap[get_app_params], "_enable_users_management")
        user        == get_user_param_by_token(user_token)
    IN  IF Truthy(manage_user)
        THEN IF user = 0 THEN RetFalse ELSE RetSection(user)
        ELSE RetNone

\* a get_preset_params that hands out the canonical section itself
get_preset_params_nocopy(h, preset_name) ==
    [h |-> h, id |-> ContainerGet(objects.preset, preset_name)]

\* ConfigManager.get_preset_params: [h |-> heap after, id |-> returned object]
get_preset_params(h, preset_name) ==
    LET found == ContainerGet(objects.preset, preset_name)
    IN  IF found = 0 THEN [h |-> h, id |-> 0]
        ELSE [h |-> Append(h, h[found]), id |-> Len(h) + 1]

\* an override merge that keeps the preset's value of a key it already has
RECURSIVE MergeOptions_keep(_, _, _)
MergeOptions_keep(options, user_object, preset_object) ==
    IF options = <<>> THEN preset_object
    ELSE MergeOptions_keep(Tail(options), user_object,
                           IF Head(options) # "_name"
                              /\ ~has_option(preset_object, Head(options))
                           THEN SetItem(preset_object, Head(options),
                                        SectionGet(user_object, Head(options)))
                           ELSE preset_object)

\* the loop of merge_configs_object over user_object.get_all()
RECURSIVE MergeOptions(_, _, _)
MergeOptions(options, user_object, preset_object) ==
    IF options = <<>> THEN preset_object
    ELSE MergeOptions(Tail(options), user_object,
                      IF Head(options) # "_name"
                      THEN SetItem(preset_object, Head(options),
                                   SectionGet(user_object, Head(options)))
                      ELSE preset_object)

\* ConfigManager.merge_configs_object on the objects u and p of heap h
merge_configs_object(h, u, p) ==
    IF u # 0
    THEN [h EXCEPT ![p] = MergeOptions(KeyList(h[u]), h[u], h[p])]
    ELSE h

\* the loop of sanitize_config_object_section over the hidden fields
RECURSIVE DeleteAll(_, _)
DeleteAll(obj, fields) ==
    IF fields = {} THEN obj
    ELSE LET f == CHOOSE g \in fields : TRUE
         IN  DeleteAll(SectionDelete(obj, f), fields \ {f})

\* a sanitize_config_object_section that strips the object it is given
sanitize_config_object_section_inplace(h, id, mutate) ==
    [h |-> [h EXCEPT ![id] = DeleteAll(h[id], keys_metadata._hidden)],
     r |-> RetFresh(DeleteAll(h[id], keys_metadata._hidden))]

\* ConfigManager.sanitize_config_object_section on heap object id:
\* with mutate the object itself is stripped, otherwise a deep copy of it
sanitize_config_object_section(h, id, mutate) ==
    IF mutate
    THEN [h |-> [h EXCEPT ![id] = DeleteAll(h[id], keys_metadata._hidden)],
          r |-> RetSection(id)]
    ELSE [h |-> h, r |-> RetFresh(DeleteAll(h[id], keys_metadata._hidden))]

\* copy.deepcopy(config_object): new sections, held by value
DeepCopyContainer(h, container) ==
    [i \in 1..Len(container) |-> <<container[i][1], h[container[i][2]]>>]

\* the loop of sanitize_config_object: each section of the clone, looked up
\* again by GlobalConfig.get, is stripped in place (mutate=True)
RECURSIVE SanitizeClone(_, _)
SanitizeClone(clone, items) ==
    IF items = <<>> THEN clone
    ELSE SanitizeClone(
             SetItem(clone, Upper(Head(items)),
                     DeleteAll(ValueOf(clone, Upper(Head(items))),
                               keys_metadata._hidden)),
             Tail(items))

\* ConfigManager.sanitize_config_object: [h |-> heap after, r |-> returned]
sanitize_config_object(h, container) ==
    LET clone_object == DeepCopyContainer(h, container)
    IN  IF \A i \in 1..Len(clone_object) :
               has_option(clone_object, Upper(clone_object[i][1]))
        THEN [h |-> h,
              r |-> RetContainer(SanitizeClone(clone_object, KeyList(clone_object)))]
        ELSE [h |-> h, r |-> RetError]

Tokens == {NoneV, StrV("t1"), StrV("t9")}

PresetNames == {"a", "nope"}

HostAliases == {"h2", "h9"}

AuthNames == {"DEFAULT", "nope"}

CallerKeys == {"x"}

UserIds == {objects.user[i][2] : i \in 1..Len(objects.user)}

Serving == pc = "serving"

Frame == UNCHANGED <<config, pc, idx, work, iter, merged, depth, phase,
                     parsers, keys_metadata, objects, error>>

GetPresetParams ==
    /\ Serving
    /\ Allocated < MaxAlloc
    /\ \E name \in PresetNames :
         LET st == get_preset_params(heap, name) IN
         /\ heap' = st.h
         /\ ret' = RetSection(st.id)
         /\ copies' = IF st.id = 0 THEN copies ELSE copies \cup {st.id}
         /\ lastOp' = Op("get_preset_params", NoneV, 0, 0, name)
    /\ Frame

GetSiteParams ==
    /\ Serving
    /\ \E alias \in HostAliases :
         /\ ret' = RetSection(search_section_by_value(objects.site, heap,
                                                      "_hosts", StrV(alias)))
         /\ lastOp' = Op("get_site_params", NoneV, 0, 0, alias)
    /\ UNCHANGED <<heap, copies>>
    /\ Frame

GetAuthParams ==
    /\ Serving
    /\ \E name \in AuthNames :
         /\ ret' = RetSection(ContainerGet(objects.auth, name))
         /\ lastOp' = Op("get_auth_params", NoneV, 0, 0, name)
    /\ UNCHANGED <<heap, copies>>
    /\ Frame

GetUserParamByToken ==
    /\ Serving
    /\ \E token \in Tokens :
         /\ ret' = RetSection(get_user_param_by_token(token))
         /\ lastOp' = Op("get_user_param_by_token", token, 0, 0, "")
    /\ UNCHANGED <<heap, copies>>
    /\ Frame

IsUserPermittedByToken ==
    /\ Serving
    /\ \E token \in Tokens :
         /\ ret' = is_user_permitted_by_token(token)
         /\ lastOp' = Op("is_user_permitted_by_token", token, 0, 0, "")
    /\ UNCHANGED <<heap, copies>>
    /\ Frame

\* merge_configs_object(user, preset copy) as the request handlers call it
MergeConfigsObject ==
    /\ Serving
    /\ \E u \in {0} \cup UserIds, p \in copies :
         /\ heap' = merge_configs_object(heap, u, p)
         /\ ret' = RetSection(p)
         /\ lastOp' = Op("merge_configs_object", NoneV, u, p, "")
    /\ UNCHANGED copies
    /\ Frame

\* the caller sets a key of a section get_preset_params returned
CopyAppend ==
    /\ Serving
    /\ \E p \in copies, key \in CallerKeys :
         /\ heap' = [heap EXCEPT ![p] = SetItem(@, key, StrV("new"))]
         /\ lastOp' = Op("append", NoneV, 0, p, key)
    /\ ret' = RetNone
    /\ UNCHANGED copies
    /\ Frame

\* the caller deletes a key of a section get_preset_params returned
CopyDelete ==
    /\ Serving
    /\ \E p \in copies, key \in CallerKeys :
         /\ heap' = [heap EXCEPT ![p] = SectionDelete(@, key)]
         /\ lastOp' = Op("delete", NoneV, 0, p, key)
    /\ ret' = RetNone
    /\ UNCHANGED copies
    /\ Frame

SanitizeConfigObject ==
    /\ Serving
    /\ \E ns \in Namespaces :
         LET st == sanitize_config_object(heap, objects[ns]) IN
         /\ heap' = st.h
         /\ ret' = st.r
         /\ lastOp' = Op("sanitize_config_object", NoneV, 0, 0, ns)
    /\ UNCHANGED copies
    /\ Frame

\* sanitize_config_object_section(section) with the default mutate=False
SanitizeConfigObjectSection ==
    /\ Serving
    /\ \E id \in UserIds \cup copies :
         LET st == sanitize_config_object_section(heap, id, FALSE) IN
         /\ heap' = st.h
         /\ ret' = st.r
         /\ lastOp' = Op("sanitize_config_object_section", NoneV, 0, id, "")
    /\ UNCHANGED copies
    /\ Frame

----------------------------------------------------------------------------
(* The parameter files the startup is run on.                              *)

\* every ordered body of at most n pairs with distinct keys drawn from pool
RECURSIVE Bodies(_, _)
Bodies(pool, n) ==
    IF n = 0 THEN {<<>>}
    ELSE LET shorter == Bodies(pool, n - 1)
         IN  shorter \cup
             UNION {{Append(b, it) : it \in {q \in pool : ~has_option(b, q[1])}} :
                        b \in {c \in shorter : Len(c) = n - 1}}

Sec(name, items) == [name |-> name, items |-> items]

BodiesA == Bodies({<<"_preset", "B">>, <<"_preset", "A">>, <<"_template", "T">>,
                   <<"_template", "U">>, <<"x", "a">>}, 3)

BodiesB == Bodies({<<"_template", "T">>, <<"_template", "Z">>,
                   <<"_preset", "A">>, <<"x", "b">>}, 2)

BodiesT == {<<>>, << <<"x", "t">> >>, << <<"_template", "U">> >>,
            << <<"x", "t">>, <<"_template", "U">> >>, << <<"_preset", "A">> >>}

BodiesU == {<< <<"y", "u">> >>, << <<"x", "u">>, <<"y", "u">> >>}

BodiesDefault == {<< <<"x", "d">> >>, << <<"y", "d">> >>, << <<"_preset", "A">> >>,
                  << <<"_template", "T">>, <<"x", "d">> >>}

\* __init__ reads _log_level and _log_backups of [app] before anything else
LogSettings == << <<"_log_level", "20">>, <<"_log_backups", "7">> >>

BodiesApp == {LogSettings, LogSettings \o << <<"_preset", "B">> >>}

StartupConfigs ==
    {<<Sec(<<"app">>, app), Sec(<<"preset", "A">>, a), Sec(<<"preset", "B">>, b),
       Sec(<<"template", "T">>, t), Sec(<<"template", "U">>, u)>> \o d :
        app \in BodiesApp, a \in BodiesA, b \in BodiesB, t \in BodiesT,
        u \in BodiesU,
        d \in {<<>>} \cup {<<Sec(<<"preset", "DEFAULT">>, e)>> : e \in BodiesDefault}}

StartState(cfg) ==
    /\ config = cfg
    /\ pc = "dispatch"
    /\ idx = 1
    /\ work = <<>>
    /\ iter = <<>>
    /\ merged = FALSE
    /\ depth = 0
    /\ phase = 0
    /\ parsers = [ns \in Namespaces |-> <<>>]
    /\ keys_metadata = EmptyMeta
    /\ objects = [ns \in Namespaces |-> <<>>]
    /\ heap = <<>>
    /\ error = "none"
    /\ ret = [kind |-> "none", id |-> 0, c |-> <<>>]
    /\ lastOp = Op("none", NoneV, 0, 0, "")
    /\ copies = {}

Init == \E cfg \in StartupConfigs : StartState(cfg)

Next ==
    \/ Dispatch
    \/ ExpandLoop
    \/ ExpandRecurse
    \/ ExpandReturn
    \/ MergeDefault
    \/ StoreExpanded
    \/ LoadMetadata
    \/ SetConfigObjects

Spec == Init /\ [][Next]_vars

----------------------------------------------------------------------------
(* Authorization: parameter files that vary the users, their tokens and    *)
(* the user management switch, then any sequence of token lookups.         *)

BodiesAppAuth == {LogSettings,
                  LogSettings \o << <<"_enable_users_management", "true">> >>,
                  LogSettings \o << <<"_enable_users_management", "false">> >>}

BodiesBob == {<<>>, << <<"_token", "t1">> >>, << <<"_token", "t2">>, <<"x", "bob">> >>}

BodiesEve == {<<>>, << <<"_token", "t1">> >>, << <<"_token", "t2">> >>}

AuthConfigs ==
    {<<Sec(<<"app">>, app), Sec(<<"template", "T">>, << <<"y", "t">> >>),
       Sec(<<"user", "bob">>, bob), Sec(<<"user", "eve">>, eve),
       Sec(<<"site", "yt">>, << <<"_hosts", "h1,h2">>, <<"_template", "T">> >>)>> \o d :
        app \in BodiesAppAuth, bob \in BodiesBob, eve \in BodiesEve,
        d \in {<<>>, <<Sec(<<"user", "DEFAULT">>, << <<"x", "d">> >>)>>}}

InitAuth == \E cfg \in AuthConfigs : StartState(cfg)

NextAuth ==
    \/ Next
    \/ GetUserParamByToken
    \/ IsUserPermittedByToken

SpecAuth == InitAuth /\ [][NextAuth]_vars

----------------------------------------------------------------------------
(* The service after startup: any sequence of requests.                    *)

ServeConfigs ==
    {<<Sec(<<"app">>, LogSettings \o << <<"_enable_users_management", "true">> >>),
       Sec(<<"preset", "a">>, << <<"x", "a">>, <<"_template", "T">> >>),
       Sec(<<"template", "T">>, << <<"y", "t">>, <<"_token", "tt">> >>),
       Sec(<<"user", "bob">>, << <<"_token", "t1">>, <<"x", "bob">> >>),
       Sec(<<"user", "eve">>, <<>>),
       Sec(<<"site", "yt">>, << <<"_hosts", "h1,h2">> >>),
       Sec(<<"auth", "DEFAULT">>, << <<"_token", "secret">> >>),
       Sec(<<"preset", "DEFAULT">>, d)>> :
        d \in {<< <<"z", "d">> >>}}

InitServe == \E cfg \in ServeConfigs : StartState(cfg)

NextServe ==
    \/ Next
    \/ GetPresetParams
    \/ GetSiteParams
    \/ GetAuthParams
    \/ GetUserParamByToken
    \/ IsUserPermittedByToken
    \/ MergeConfigsObject
    \/ CopyAppend
    \/ CopyDelete
    \/ SanitizeConfigObject
    \/ SanitizeConfigObjectSection

SpecServe == InitServe /\ [][NextServe]_vars

----------------------------------------------------------------------------
(* Vocabulary of the properties.                                           *)

\* the six reserved reference keys of the specification
ReferenceKeys == {"_preset", "_template", "_location", "_auth", "_site", "_user"}

PlainKeys(items) == KeysOf(items) \ ReferenceKeys

\* the raw section being expanded and the sections of the raw file
RawItems == config[idx].items

Raw(name) == SectionItems(config, name)

SectionNames == {config[i].name : i \in 1..Len(config)}

\* sections the raw section name refers to through its reference keys
Refs(name) ==
    IF name \in SectionNames
    THEN {<<Lstrip(it[1]), it[2]>> : it \in {q \in Range(Raw(name)) : q[1] \in ReferenceKeys}}
    ELSE {}

RECURSIVE Closure(_)
Closure(names) ==
    LET more == names \cup UNION {Refs(n) : n \in names}
    IN  IF more = names THEN names ELSE Closure(more)

\* everything reachable from name through reference keys
Reachable(name) == Closure(Refs(name))

NamespaceDefault(name) == <<name[1], "DEFAULT">>

Expanding == pc \in {"loop", "default", "store"}

----------------------------------------------------------------------------
\* what C1 requires of a single step
C1_Step ==
    /\ pc \in {"loop", "default"} =>
         \A i \in 1..Len(work) :
            work[i][1] \notin ReferenceKeys =>
               /\ has_option(work', work[i][1])
               /\ ValueOf(work', work[i][1]) = work[i][2]
    /\ pc' = "store" =>
         /\ \A k \in PlainKeys(RawItems) :
               has_option(work', k) /\ ValueOf(work', k) = ValueOf(RawItems, k)
         /\ \A k \in UNION {PlainKeys(Raw(t)) : t \in Refs(CurName)} \ KeysOf(RawItems) :
               LET setters == {i \in 1..Len(RawItems) :
                                  /\ RawItems[i][1] \in ReferenceKeys
                                  /\ k \in KeysOf(Raw(<<Lstrip(RawItems[i][1]), RawItems[i][2]>>))}
                   first   == CHOOSE i \in setters : \A j \in setters : i <= j
               IN  /\ has_option(work', k)
                   /\ ValueOf(work', k) =
                        ValueOf(Raw(<<Lstrip(RawItems[first][1]), RawItems[first][2]>>), k)

\* C1: within one expansion a non-reference key that is in the working map
\* keeps its value through every later step (reference merge or DEFAULT
\* merge); hence in the expanded result every non-reference key of the raw
\* section has the raw value, and a key the raw section does not set and
\* that the targets of several of its reference keys set has the value of
\* the target whose reference key comes first in the section.
C1_FirstWriterWins == [][C1_Step]_vars

\* an expanded section whose two reference keys both lead to a target that
\* sets x, with different values, under a DEFAULT that sets x as well
C1_Witness ==
    /\ pc = "store"
    /\ ~has_option(RawItems, "x")
    /\ has_option(RawItems, "_preset") /\ has_option(RawItems, "_template")
    /\ \A t \in Refs(CurName) : has_option(Raw(t), "x")
    /\ Cardinality({ValueOf(Raw(t), "x") : t \in Refs(CurName)}) = 2
    /\ NamespaceDefault(CurName) \in SectionNames
    /\ has_option(Raw(NamespaceDefault(CurName)), "x")
    /\ has_option(work, "x")

----------------------------------------------------------------------------
TypedSectionKeys(ns) ==
    {KeysOf(heap[objects[ns][i][2]]) : i \in 1..Len(objects[ns])}

\* C3 as stated: once startup has completed no section of any typed
\* namespace container, app included, has a reference key, and the flat
\* map an expansion returns has none.
C3_Original ==
    /\ pc = "store" => KeysOf(work) \cap ReferenceKeys = {}
    /\ pc = "serving" =>
         \A ns \in {"app", "preset", "site", "user", "auth"} :
            \A keys \in TypedSectionKeys(ns) : keys \cap ReferenceKeys = {}

\* C3 amended: the flat map an expansion returns has no reference key, and
\* once startup has completed no section of the preset, site, user and auth
\* containers has one; the app section is copied without expansion.
C3_NoReferenceKeys ==
    /\ pc = "store" => KeysOf(work) \cap ReferenceKeys = {}
    /\ pc = "serving" =>
         /\ \A ns \in {"preset", "site", "user", "auth"} :
               \A keys \in TypedSectionKeys(ns) : keys \cap ReferenceKeys = {}
         /\ \A i \in 1..Len(objects.app) :
               KeysOf(heap[objects.app[i][2]]) \cap ReferenceKeys
                  = KeysOf(Raw(<<"app">>)) \cap ReferenceKeys

\* startup completed on a file whose preset sections and DEFAULT carry
\* reference keys, and the typed presets are there
C3_Witness ==
    /\ pc = "serving"
    /\ Len(objects.preset) = 3
    /\ \A n \in {<<"preset", "A">>, <<"preset", "B">>, <<"preset", "DEFAULT">>} :
          n \in SectionNames /\ KeysOf(Raw(n)) \cap ReferenceKeys # {}
    /\ Cardinality(KeysOf(Raw(<<"preset", "A">>)) \cap ReferenceKeys) = 2

----------------------------------------------------------------------------
\* the section being expanded refers to itself through reference keys,
\* those merged from the namespace DEFAULT included
OnCycle ==
    CurName \in Closure(Refs(CurName) \cup Refs(NamespaceDefault(CurName)))

\* every reference of the file names a section of the file
AllTargetsExist ==
    \A n \in SectionNames : Refs(n) \subseteq SectionNames

\* C4 as stated: the expansion of a section that refers to itself, directly
\* or transitively, ends in CyclicReferenceError; it neither returns a
\* result nor exhausts the recursion stack.
C4_CyclicReferenceError ==
    (Expanding \/ pc = "failed") /\ idx <= Len(config) /\ AllTargetsExist /\ OnCycle
       => /\ pc # "store"
          /\ pc = "failed" => error = "CyclicReferenceError"

----------------------------------------------------------------------------
\* section a names b by a reference key and b names c by a reference key
Chain(a, b, c) ==
    /\ b \in Refs(a) /\ b \in SectionNames
    /\ c \in Refs(b) /\ c \in SectionNames

Unshadowed(a, b, c) ==
    \/ Cardinality(KeysOf(Raw(a)) \cap ReferenceKeys) = 1
    \/ \E r \in ReferenceKeys :
          /\ has_option(Raw(a), r) /\ <<Lstrip(r), ValueOf(Raw(a), r)>> = b
          /\ has_option(Raw(b), r) /\ <<Lstrip(r), ValueOf(Raw(b), r)>> = c

----------------------------------------------------------------------------
\* C7 as stated: no expansion is ever started on a namespace DEFAULT
\* section and no typed container holds a section named DEFAULT.
C7_Original ==
    /\ Expanding => CurName[Len(CurName)] # "DEFAULT"
    /\ \A ns \in Namespaces : ~has_option(objects[ns], "DEFAULT")

\* C7 amended: a namespace DEFAULT section is a merge source for the other
\* sections of its namespace and is also expanded itself, like any section
\* of the namespace: once startup has completed, the typed container of a
\* namespace whose raw file has a DEFAULT section holds a section named
\* DEFAULT with every non-reference key of the raw DEFAULT section.
C7_DefaultIsExpanded ==
    pc = "serving" =>
       \A ns \in {"preset", "site", "user", "auth"} :
          <<ns, "DEFAULT">> \in SectionNames =>
             /\ has_option(objects[ns], "DEFAULT")
             /\ \A k \in PlainKeys(Raw(<<ns, "DEFAULT">>)) :
                   /\ has_option(heap[ValueOf(objects[ns], "DEFAULT")], k)
                   /\ ValueOf(heap[ValueOf(objects[ns], "DEFAULT")], k).s
                         = ValueOf(Raw(<<ns, "DEFAULT">>), k)

C7_Witness ==
    /\ pc = "serving"
    /\ <<"preset", "DEFAULT">> \in SectionNames
    /\ has_option(objects.preset, "DEFAULT")
    /\ has_option(heap[ValueOf(objects.preset, "DEFAULT")], "y")

----------------------------------------------------------------------------
\* C8 as stated: for every key k of the namespace DEFAULT that the raw
\* section does not set, the result has k with DEFAULT's value; a key the
\* raw section sets keeps its value; the DEFAULT merge happens once, after
\* the reference expansion of the section has finished.
C8_Original ==
    /\ pc = "default" => phase = 1 /\ KeysOf(work) \cap ReferenceKeys = {}
    /\ pc = "store" /\ NamespaceDefault(CurName) \in SectionNames =>
         /\ \A k \in KeysOf(Raw(NamespaceDefault(CurName))) \ KeysOf(RawItems) :
               /\ has_option(work, k)
               /\ ValueOf(work, k) = ValueOf(Raw(NamespaceDefault(CurName)), k)
         /\ \A k \in PlainKeys(RawItems) :
               has_option(work, k) /\ ValueOf(work, k) = ValueOf(RawItems, k)

\* C8 amended: the same for the non-reference keys k of DEFAULT that
\* neither the raw section nor any section reachable through its reference
\* keys sets.
C8_DefaultFallback ==
    /\ pc = "default" => phase = 1 /\ KeysOf(work) \cap ReferenceKeys = {}
    /\ pc = "store" /\ NamespaceDefault(CurName) \in SectionNames =>
         /\ \A k \in PlainKeys(Raw(NamespaceDefault(CurName))) \ KeysOf(RawItems) :
               (\A n \in Reachable(CurName) \cap SectionNames : k \notin KeysOf(Raw(n)))
                  => /\ has_option(work, k)
                     /\ ValueOf(work, k) = ValueOf(Raw(NamespaceDefault(CurName)), k)
         /\ \A k \in PlainKeys(RawItems) :
               has_option(work, k) /\ ValueOf(work, k) = ValueOf(RawItems, k)

\* a section with a reference key got x from DEFAULT and kept its own keys
C8_Witness ==
    /\ pc = "store"
    /\ CurName = <<"preset", "B">>
    /\ NamespaceDefault(CurName) \in SectionNames
    /\ KeysOf(RawItems) \cap ReferenceKeys # {}
    /\ ~has_option(RawItems, "x")
    /\ has_option(work, "x") /\ ValueOf(work, "x") = "d"
    /\ has_option(work, "y")

----------------------------------------------------------------------------
\* typed sections of the canonical user container, in container order
UserSections == [i \in 1..Len(objects.user) |-> heap[objects.user[i][2]]]

\* the user sections that carry a _token key whose value equals the token
TokenMatches(token) ==
    {i \in 1..Len(objects.user) :
        /\ has_option(UserSections[i], "_token")
        /\ ValueOf(UserSections[i], "_token") = token}

UsersManaged ==
    LET app == heap[ValueOf(objects.app, "APP")]
    IN  /\ has_option(app, "_enable_users_management")
        /\ ValueOf(app, "_enable_users_management") = BoolV(TRUE)

\* C2 as stated: is_user_permitted_by_token(token) returns None when user
\* management is off; when it is on it returns False if no user section has
\* a _token equal to the token (an absent token and users without a _token
\* key included) and otherwise the first user section whose _token equals
\* the token.
C2_Authorization ==
    pc = "serving" /\ lastOp.op = "is_user_permitted_by_token" =>
       LET matches == TokenMatches(lastOp.tok) IN
       IF ~UsersManaged THEN ret = RetNone
       ELSE IF matches = {} THEN ret = RetFalse
       ELSE ret = RetSection(objects.user[CHOOSE i \in matches :
                                             \A j \in matches : i <= j][2])

----------------------------------------------------------------------------
HiddenKeys == keys_metadata._hidden

\* what C6 requires of a single step
C6_Step ==
    /\ lastOp'.op = "sanitize_config_object" =>
         /\ ret'.kind = "container"
         /\ Len(ret'.c) = Len(objects[lastOp'.key])
         /\ \A i \in 1..Len(ret'.c) :
               /\ ret'.c[i][1] = objects[lastOp'.key][i][1]
               /\ KeysOf(ret'.c[i][2]) \cap HiddenKeys = {}
               /\ KeysOf(ret'.c[i][2])
                     = KeysOf(heap[objects[lastOp'.key][i][2]]) \ HiddenKeys
         /\ heap' = heap /\ objects' = objects
    /\ lastOp'.op = "sanitize_config_object_section" =>
         /\ ret'.kind = "fresh"
         /\ KeysOf(ret'.c[1]) = KeysOf(heap[lastOp'.p]) \ HiddenKeys
         /\ \A k \in KeysOf(ret'.c[1]) :
               ValueOf(ret'.c[1], k) = ValueOf(heap[lastOp'.p], k)
         /\ heap' = heap /\ objects' = objects

\* C6: the object sanitize_config_object(container) returns has the
\* sections of the container without any hidden key, the object
\* sanitize_config_object_section(section) returns (mutate=False) is the
\* section without any hidden key, and the call leaves every existing
\* object, the argument and the canonical store included, as it was.
C6_Sanitization == [][C6_Step]_vars

\* the user container was sanitized: a canonical user section still has its
\* hidden _token, the returned section of the same name does not
C6_Witness ==
    /\ lastOp.op = "sanitize_config_object"
    /\ lastOp.key = "user"
    /\ ret.kind = "container"
    /\ \E i \in 1..Len(objects.user) :
          /\ has_option(heap[objects.user[i][2]], "_token")
          /\ "_token" \in HiddenKeys
          /\ ret.c[i][1] = objects.user[i][1]
          /\ ~has_option(ret.c[i][2], "_token")
          /\ has_option(ret.c[i][2], "_name")

----------------------------------------------------------------------------
\* ids of the sections the canonical containers hold
CanonicalSections ==
    UNION {{objects[ns][i][2] : i \in 1..Len(objects[ns])} : ns \in Namespaces}

\* what C9 requires of a single step
C9_Step ==
    pc = "serving" =>
       /\ objects' = objects
       /\ \A id \in CanonicalSections : heap'[id] = heap[id]
       /\ copies \cap CanonicalSections = {}
       /\ (lastOp'.op = "get_preset_params" /\ ret'.kind = "section") =>
             /\ ret'.id \notin CanonicalSections
             /\ ret'.id \notin copies
             /\ heap'[ret'.id] = heap[ValueOf(objects.preset, Upper(lastOp'.key))]
       /\ \A id \in 1..Len(heap) :
             heap'[id] # heap[id] =>
                /\ id \in copies
                /\ lastOp'.op \in {"merge_configs_object", "append", "delete"}
                /\ lastOp'.p = id

\* C9: after startup no request-time operation changes a section of a
\* canonical container or the containers themselves; get_preset_params
\* returns a new object each time, and a change to one returned section
\* leaves every other object as it was.
C9_CanonicalStoreImmutable == [][C9_Step]_vars

\* two copies of the same preset, one changed by the caller, the other
\* still equal to the canonical section
C9_Witness ==
    /\ pc = "serving"
    /\ \E p \in copies, q \in copies :
          /\ p # q
          /\ heap[q] = heap[ValueOf(objects.preset, "A")]
          /\ heap[p] # heap[q]
          /\ has_option(heap[p], "_token")
          /\ ValueOf(heap[p], "_token") = StrV("t1")

----------------------------------------------------------------------------
\* what C10 requires of a single step
C10_Step ==
    lastOp'.op = "merge_configs_object" =>
       LET u == lastOp'.u
           p == lastOp'.p
       IN  /\ ret' = RetSection(p)
           /\ u = 0 => heap'[p] = heap[p]
           /\ u # 0 =>
                LET copied == KeysOf(heap[u]) \ {"_name"} IN
                /\ KeysOf(heap'[p]) = KeysOf(heap[p]) \cup copied
                /\ \A k \in copied : ValueOf(heap'[p], k) = ValueOf(heap[u], k)
                /\ \A k \in KeysOf(heap[p]) \ copied :
                      ValueOf(heap'[p], k) = ValueOf(heap[p], k)
                /\ ValueOf(heap'[p], "_name") = ValueOf(heap[p], "_name")
                /\ heap'[u] = heap[u]

\* C10: merge_configs_object(U, P) returns P; every key of U except _name
\* has U's value in P afterwards, every other key of P keeps its value,
\* _name included, P gets no other key, and U is unchanged; with U absent
\* P is unchanged.
C10_OverrideMerge == [][C10_Step]_vars

\* user BOB merged into a copy of preset A: x and _token are BOB's, y and
\* _name are still the preset's
C10_Witness ==
    /\ lastOp.op = "merge_configs_object"
    /\ lastOp.u # 0
    /\ ValueOf(heap[lastOp.u], "_name") = StrV("BOB")
    /\ ValueOf(heap[lastOp.p], "_name") = StrV("A")
    /\ ValueOf(heap[lastOp.p], "x") = StrV("bob")
    /\ ValueOf(heap[lastOp.p], "_token") = StrV("t1")
    /\ ValueOf(heap[lastOp.p], "y") = StrV("t")

====
